---- MODULE Spec2Model ----
(***************************************************************************)
(* A model of stojg/tcp-proxy (src/main.go): the accept loop of main, and   *)
(* per accepted connection one Proxy with its goroutines Start, two pipes   *)
(* (local->remote "up", remote->local "down") and stats.                    *)
(*                                                                          *)
(* Granularity: one action per Go statement that touches state shared       *)
(* between goroutines (a counter, erred, a channel, a connection, the log). *)
(* The fields sentBytes, receivedBytes and erred are read and written       *)
(* without synchronisation in the source; every interleaving of those       *)
(* statements is a behaviour of the model.  An unbuffered channel is a      *)
(* rendezvous: the send and the receive are one joint action, enabled only  *)
(* when the sender is at its send and the receiver at its receive.          *)
(***************************************************************************)
EXTENDS Naturals, Sequences, FiniteSets

\* ---------------------------------------------------------------- bounds
\* Sessions the acceptor creates in the many-session specification.
MaxSessions == 2
\* Accept errors the acceptor meets (each is logged, the loop continues).
MaxAcceptErrs == 1
\* Size of a pipe's copy buffer: stands for 0xffff (src/main.go:142).
BufSize == 2
\* Bytes the two peers of a session send between them (specification Spec).
MaxBytes == 1
\* Bytes a peer sends in one direction (specification SpecRelay): below,
\* equal to and above BufSize all occur.
MaxPayload == 3
\* Bytes all peers send between them (specification SpecMulti).
MaxBytesMulti == 1
\* Bytes the two peers of a session send between them (specification
\* SpecReport): two, so that a counter can move between two statements of a
\* tick that another increase has started.
MaxReported == 2

Sessions == 1..MaxSessions
Dirs     == {"up", "down"}
Sides    == {"local", "remote"}

\* pipe(src, dst): "up" is pipe(localConn, remoteConn), "down" the reverse.
Src(d) == IF d = "up" THEN "local" ELSE "remote"
Dst(d) == IF d = "up" THEN "remote" ELSE "local"
\* isLocal computed from the destination: each pipe counts for the other.
isLocalOfDst(d) == Dst(d) = "local"

\* isLocal := src == p.localConn
isLocal(d) == Src(d) = "local"

\* The k-th byte a peer sends in direction d.  Every byte of a session is
\* distinct, so that a duplicated, reordered, altered or skipped byte shows.
Byte(d, k) == IF d = "up" THEN k ELSE 10 + k

RECURSIVE Stream(_, _, _)
\* Bytes number from+1 .. from+len of direction d, in order.
Stream(d, from, len) ==
    IF len = 0 THEN << >> ELSE Stream(d, from, len - 1) \o << Byte(d, from + len) >>

IsPrefix(a, b) == Len(a) <= Len(b) /\ SubSeq(b, 1, Len(a)) = a

Min(a, b) == IF a <= b THEN a ELSE b

VARIABLES
    \* ---- main
    unwrapTLS,      \* the -tls flag
    connId,         \* main's connId counter
    acceptErrs,     \* "failed to accept connection" lines logged
    \* ---- Proxy fields, one per session slot
    id, tlsUnwrap, sentBytes, receivedBytes, erred,
    connClosed,     \* [side -> BOOLEAN]: Close() was called on localConn/remoteConn
    \* ---- goroutines
    pcStart,        \* position of Start
    pcPipe,         \* [d -> position of pipe d]
    buff,           \* [d -> the pipe's buffer, BufSize bytes]
    n,              \* [d -> the pipe's n]
    errArg,         \* [d -> the (s, err) the pipe passed to p.err]
    pcStats, prevSent, prevReceived,
    \* ---- the environment: the two peers and their sockets
    peer,           \* [side -> "none" | "open" | "fin" | "rst"]
    peerSent,       \* [d -> number of bytes the source peer of d has sent]
    nRead,          \* [d -> number of those bytes Read has returned]
    written,        \* [d -> the bytes Write has put on the destination]
    \* ---- observations
    log,            \* the session's log lines, in order
    dials,          \* the dial targets Start attempted, in order
    firstFailure,   \* the direction whose pipe called err first ("none": no call yet)
    consumed,       \* receives Start completed on stopSignal
    signalled       \* directions whose send on stopSignal completed

mainVars  == << unwrapTLS, connId, acceptErrs >>
proxyVars == << id, tlsUnwrap, sentBytes, receivedBytes, erred, connClosed >>
taskVars  == << pcStart, pcPipe, buff, n, errArg, pcStats, prevSent, prevReceived >>
envVars   == << peer, peerSent, nRead, written >>
obsVars   == << log, dials, firstFailure, consumed, signalled >>
vars == << mainVars, proxyVars, taskVars, envVars, obsVars >>

\* Everything that belongs to session s.
SessionState(s) ==
    << id[s], tlsUnwrap[s], sentBytes[s], receivedBytes[s], erred[s], connClosed[s],
       pcStart[s], pcPipe[s], buff[s], n[s], errArg[s], pcStats[s], prevSent[s],
       prevReceived[s], peer[s], peerSent[s], nRead[s], written[s],
       log[s], dials[s], firstFailure[s], consumed[s], signalled[s] >>

NoErr == [ctx |-> "none", eof |-> FALSE]
ZeroBuff == [i \in 1..BufSize |-> 0]

\* ------------------------------------------------------------------ Init
\* Before any connection is accepted no Proxy exists: every slot is empty.
Init ==
    /\ unwrapTLS \in BOOLEAN
    /\ connId = 0
    /\ acceptErrs = 0
    /\ id = [s \in Sessions |-> 0]
    /\ tlsUnwrap = [s \in Sessions |-> FALSE]
    /\ sentBytes = [s \in Sessions |-> 0]
    /\ receivedBytes = [s \in Sessions |-> 0]
    /\ erred = [s \in Sessions |-> FALSE]
    /\ connClosed = [s \in Sessions |-> [x \in Sides |-> FALSE]]
    /\ pcStart = [s \in Sessions |-> "none"]
    /\ pcPipe = [s \in Sessions |-> [d \in Dirs |-> "none"]]
    /\ buff = [s \in Sessions |-> [d \in Dirs |-> ZeroBuff]]
    /\ n = [s \in Sessions |-> [d \in Dirs |-> 0]]
    /\ errArg = [s \in Sessions |-> [d \in Dirs |-> NoErr]]
    /\ pcStats = [s \in Sessions |-> "none"]
    /\ prevSent = [s \in Sessions |-> 0]
    /\ prevReceived = [s \in Sessions |-> 0]
    /\ peer = [s \in Sessions |-> [x \in Sides |-> "none"]]
    /\ peerSent = [s \in Sessions |-> [d \in Dirs |-> 0]]
    /\ nRead = [s \in Sessions |-> [d \in Dirs |-> 0]]
    /\ written = [s \in Sessions |-> [d \in Dirs |-> << >>]]
    /\ log = [s \in Sessions |-> << >>]
    /\ dials = [s \in Sessions |-> << >>]
    /\ firstFailure = [s \in Sessions |-> "none"]
    /\ consumed = [s \in Sessions |-> 0]
    /\ signalled = [s \in Sessions |-> {}]

\* ------------------------------------------------------------------ main
\* New without `id: id` in its struct literal: the id stays the zero value.
NewWithoutId(i, tls) ==
    /\ id' = id
    /\ tlsUnwrap' = [tlsUnwrap EXCEPT ![i] = tls]
    /\ sentBytes' = [sentBytes EXCEPT ![i] = 0]
    /\ receivedBytes' = [receivedBytes EXCEPT ![i] = 0]
    /\ erred' = [erred EXCEPT ![i] = FALSE]
    /\ connClosed' = [connClosed EXCEPT ![i] = [x \in Sides |-> FALSE]]

\* New / NewTLSUnwrapped: the Proxy for connection number i.
New(i, tls) ==
    /\ id' = [id EXCEPT ![i] = i]
    /\ tlsUnwrap' = [tlsUnwrap EXCEPT ![i] = tls]
    /\ sentBytes' = [sentBytes EXCEPT ![i] = 0]
    /\ receivedBytes' = [receivedBytes EXCEPT ![i] = 0]
    /\ erred' = [erred EXCEPT ![i] = FALSE]
    /\ connClosed' = [connClosed EXCEPT ![i] = [x \in Sides |-> FALSE]]

\* One turn of main's loop with AcceptTCP succeeding: connId++, the Proxy is
\* built and `go p.Start()` starts its Start goroutine.  The accepted local
\* connection is open from here on.
Accept(limit) ==
    /\ connId < limit
    /\ connId' = connId + 1
    /\ New(connId + 1, unwrapTLS)
    /\ pcStart' = [pcStart EXCEPT ![connId + 1] = "dial"]
    /\ peer' = [peer EXCEPT ![connId + 1]["local"] = "open"]
    /\ UNCHANGED << unwrapTLS, acceptErrs, pcPipe, buff, n, errArg, pcStats,
                    prevSent, prevReceived, peerSent, nRead, written, obsVars >>

\* The loop without the continue of line 36: after the log line it goes on
\* to connId++, New and `go p.Start()` with the connection it did not get.
AcceptErrorNoContinue ==
    /\ acceptErrs < MaxAcceptErrs
    /\ connId < MaxSessions
    /\ acceptErrs' = acceptErrs + 1
    /\ connId' = connId + 1
    /\ New(connId + 1, unwrapTLS)
    /\ pcStart' = [pcStart EXCEPT ![connId + 1] = "dial"]
    /\ UNCHANGED << unwrapTLS, pcPipe, buff, n, errArg, pcStats,
                    prevSent, prevReceived, envVars, obsVars >>

\* One turn of main's loop with AcceptTCP failing: log and continue.
AcceptError ==
    /\ acceptErrs < MaxAcceptErrs
    /\ acceptErrs' = acceptErrs + 1
    /\ UNCHANGED << unwrapTLS, connId, proxyVars, taskVars, envVars, obsVars >>

\* ----------------------------------------------------------------- Start
Logged(s, line) == log' = [log EXCEPT ![s] = Append(@, line)]

\* The dial target Start uses: tls.Dial(p.tlsAddress) or net.DialTCP(p.remoteAddr).
DialTarget(s) == IF tlsUnwrap[s] THEN "tls" ELSE "tcp"

\* Start, lines 83-95, dial succeeds: remoteConn is set, its close is
\* deferred, the "opened" line is logged.
StartDialOk(s) ==
    /\ pcStart[s] = "dial"
    /\ dials' = [dials EXCEPT ![s] = Append(@, DialTarget(s))]
    /\ peer' = [peer EXCEPT ![s]["remote"] = "open"]
    /\ Logged(s, [kind |-> "opened"])
    /\ pcStart' = [pcStart EXCEPT ![s] = "goPipeUp"]
    /\ UNCHANGED << mainVars, proxyVars, pcPipe, buff, n, errArg, pcStats,
                    prevSent, prevReceived, peerSent, nRead, written,
                    firstFailure, consumed, signalled >>

\* Start without the return of line 90.
AfterDialFailNoReturn == "goPipeUp"

\* Where Start goes after a failed dial: it returns, and only the deferred
\* close(p.localConn) runs.
AfterDialFail == "closeLocal"

\* Start, lines 83-91, dial fails: log and return.
StartDialFail(s) ==
    /\ pcStart[s] = "dial"
    /\ dials' = [dials EXCEPT ![s] = Append(@, DialTarget(s))]
    /\ Logged(s, [kind |-> "dialfail"])
    /\ pcStart' = [pcStart EXCEPT ![s] = AfterDialFail]
    /\ UNCHANGED << mainVars, proxyVars, pcPipe, buff, n, errArg, pcStats,
                    prevSent, prevReceived, envVars, firstFailure, consumed, signalled >>

\* go p.pipe(p.localConn, p.remoteConn)
StartGoPipeUp(s) ==
    /\ pcStart[s] = "goPipeUp"
    /\ pcPipe' = [pcPipe EXCEPT ![s]["up"] = "read"]
    /\ pcStart' = [pcStart EXCEPT ![s] = "goPipeDown"]
    /\ UNCHANGED << mainVars, proxyVars, buff, n, errArg, pcStats,
                    prevSent, prevReceived, envVars, obsVars >>

\* go p.pipe(p.remoteConn, p.localConn)
StartGoPipeDown(s) ==
    /\ pcStart[s] = "goPipeDown"
    /\ pcPipe' = [pcPipe EXCEPT ![s]["down"] = "read"]
    /\ pcStart' = [pcStart EXCEPT ![s] = "goStats"]
    /\ UNCHANGED << mainVars, proxyVars, buff, n, errArg, pcStats,
                    prevSent, prevReceived, envVars, obsVars >>

\* done := make(chan bool); go p.stats(done).  stats starts with
\* prevSent = prevReceived = 0 and waits in its select.
StartGoStats(s) ==
    /\ pcStart[s] = "goStats"
    /\ pcStats' = [pcStats EXCEPT ![s] = "select"]
    /\ prevSent' = [prevSent EXCEPT ![s] = 0]
    /\ prevReceived' = [prevReceived EXCEPT ![s] = 0]
    /\ pcStart' = [pcStart EXCEPT ![s] = "wait"]
    /\ UNCHANGED << mainVars, proxyVars, pcPipe, buff, n, errArg, envVars, obsVars >>

\* log.Printf("[%d] closed (%d bytes sent, %d bytes recieved)", ...); Start
\* then returns and its deferred closes run, close(p.remoteConn) first.
StartLogClosed(s) ==
    /\ pcStart[s] = "logClosed"
    /\ Logged(s, [kind |-> "closed", sent |-> sentBytes[s], received |-> receivedBytes[s]])
    /\ pcStart' = [pcStart EXCEPT ![s] = "closeRemote"]
    /\ UNCHANGED << mainVars, proxyVars, pcPipe, buff, n, errArg, pcStats,
                    prevSent, prevReceived, envVars, dials, firstFailure, consumed, signalled >>

\* close(closer): Close() is called; when it returns an error, that is logged.
close(s, x, failed) ==
    /\ connClosed' = [connClosed EXCEPT ![s][x] = TRUE]
    /\ IF failed THEN Logged(s, [kind |-> "closeerr"]) ELSE log' = log

\* Start without the deferred close(p.remoteConn) of line 92.
StartCloseRemoteMissing(s, failed) ==
    /\ pcStart[s] = "closeRemote"
    /\ ~failed
    /\ pcStart' = [pcStart EXCEPT ![s] = "closeLocal"]
    /\ UNCHANGED << mainVars, proxyVars, pcPipe, buff, n, errArg, pcStats,
                    prevSent, prevReceived, envVars, obsVars >>

\* deferred close(p.remoteConn)
StartCloseRemote(s, failed) ==
    /\ pcStart[s] = "closeRemote"
    /\ close(s, "remote", failed)
    /\ pcStart' = [pcStart EXCEPT ![s] = "closeLocal"]
    /\ UNCHANGED << mainVars, id, tlsUnwrap, sentBytes, receivedBytes, erred,
                    pcPipe, buff, n, errArg, pcStats, prevSent, prevReceived,
                    envVars, dials, firstFailure, consumed, signalled >>

\* deferred close(p.localConn); Start has returned after it.
StartCloseLocal(s, failed) ==
    /\ pcStart[s] = "closeLocal"
    /\ close(s, "local", failed)
    /\ pcStart' = [pcStart EXCEPT ![s] = "exited"]
    /\ UNCHANGED << mainVars, id, tlsUnwrap, sentBytes, receivedBytes, erred,
                    pcPipe, buff, n, errArg, pcStats, prevSent, prevReceived,
                    envVars, dials, firstFailure, consumed, signalled >>

\* ------------------------------------------------------------------ pipe
\* Bytes the source peer of d has sent that Read has not returned yet.
Unread(s, d) == peerSent[s][d] - nRead[s][d]

\* buff after Read stored k new bytes at its front (the rest keeps what an
\* earlier Read left there).
Filled(s, d, k) ==
    [i \in 1..BufSize |-> IF i <= k THEN Byte(d, nRead[s][d] + i) ELSE buff[s][d][i]]

\* The call p.err(s, err) the pipe makes, then returns.
CallErr(s, d, ctx, eof) ==
    /\ errArg' = [errArg EXCEPT ![s][d] = [ctx |-> ctx, eof |-> eof]]
    /\ pcPipe' = [pcPipe EXCEPT ![s][d] = "err"]
    /\ firstFailure' = [firstFailure EXCEPT ![s] = IF @ = "none" THEN d ELSE @]
    /\ UNCHANGED << log, dials, consumed, signalled >>

\* n, err := src.Read(buff) returning k >= 1 bytes (k < BufSize, or less than
\* what is there to read: a short read).
PipeReadData(s, d) ==
    /\ pcPipe[s][d] = "read"
    /\ ~connClosed[s][Src(d)]
    /\ \E k \in 1..Min(BufSize, Unread(s, d)) :
         /\ buff' = [buff EXCEPT ![s][d] = Filled(s, d, k)]
         /\ n' = [n EXCEPT ![s][d] = k]
         /\ nRead' = [nRead EXCEPT ![s][d] = @ + k]
    /\ pcPipe' = [pcPipe EXCEPT ![s][d] = "write"]
    /\ UNCHANGED << mainVars, proxyVars, pcStart, errArg, pcStats, prevSent,
                    prevReceived, peer, peerSent, written, obsVars >>

\* src.Read returns io.EOF: the peer has closed and all it sent was read.
PipeReadEOF(s, d) ==
    /\ pcPipe[s][d] = "read"
    /\ ~connClosed[s][Src(d)]
    /\ peer[s][Src(d)] = "fin"
    /\ Unread(s, d) = 0
    /\ CallErr(s, d, "read", TRUE)
    /\ UNCHANGED << mainVars, proxyVars, pcStart, buff, n, pcStats, prevSent,
                    prevReceived, envVars >>

\* A Read that gives up on an idle connection: a read deadline.
PipeReadTimeout(s, d) ==
    /\ pcPipe[s][d] = "read"
    /\ CallErr(s, d, "read", FALSE)
    /\ UNCHANGED << mainVars, proxyVars, pcStart, buff, n, pcStats, prevSent,
                    prevReceived, envVars >>

\* src.Read returns another error: the connection was reset by the peer, or
\* the session itself has closed it ("use of closed network connection").
PipeReadError(s, d) ==
    /\ pcPipe[s][d] = "read"
    /\ connClosed[s][Src(d)] \/ peer[s][Src(d)] = "rst"
    /\ CallErr(s, d, "read", FALSE)
    /\ UNCHANGED << mainVars, proxyVars, pcStart, buff, n, pcStats, prevSent,
                    prevReceived, envVars >>

\* dst.Write(buff): the whole buffer, not the n bytes read.
WriteArgWholeBuff(s, d) == buff[s][d]

\* The bytes the pipe hands to dst.Write: buff[:n].
WriteArg(s, d) == SubSeq(buff[s][d], 1, n[s][d])

\* n, err = dst.Write(buff[:n]) with err == nil: all of it is written.
PipeWriteOk(s, d) ==
    /\ pcPipe[s][d] = "write"
    /\ ~connClosed[s][Dst(d)]
    /\ peer[s][Dst(d)] \in {"open", "fin"}
    /\ written' = [written EXCEPT ![s][d] = @ \o WriteArg(s, d)]
    /\ n' = [n EXCEPT ![s][d] = Len(WriteArg(s, d))]
    /\ pcPipe' = [pcPipe EXCEPT ![s][d] = "count"]
    /\ UNCHANGED << mainVars, proxyVars, pcStart, buff, errArg, pcStats, prevSent,
                    prevReceived, peer, peerSent, nRead, obsVars >>

\* dst.Write fails after k bytes (none when the session has closed dst): the
\* peer has gone, or the session has closed the connection.
PipeWriteError(s, d) ==
    /\ pcPipe[s][d] = "write"
    /\ connClosed[s][Dst(d)] \/ peer[s][Dst(d)] \in {"fin", "rst"}
    /\ \E k \in 0..(IF connClosed[s][Dst(d)] THEN 0 ELSE n[s][d] - 1) :
         /\ written' = [written EXCEPT ![s][d] = @ \o SubSeq(WriteArg(s, d), 1, k)]
         /\ n' = [n EXCEPT ![s][d] = k]
    /\ CallErr(s, d, "write", FALSE)
    /\ UNCHANGED << mainVars, proxyVars, pcStart, buff, pcStats, prevSent,
                    prevReceived, peer, peerSent, nRead >>

\* Counting len(buff) for every chunk.
CountedBufferSize(s, d) == BufSize

\* Counting, on a TLS connection, a byte of record framing with every chunk.
CountedOnTheWire(s, d) == IF tlsUnwrap[s] THEN n[s][d] + 1 ELSE n[s][d]

\* The amount a pipe adds to its counter: uint64(n), the n Write returned.
Counted(s, d) == n[s][d]

\* if isLocal { p.sentBytes += uint64(n) } else { p.receivedBytes += uint64(n) }
PipeCount(s, d) ==
    /\ pcPipe[s][d] = "count"
    /\ IF isLocal(d)
         THEN /\ sentBytes' = [sentBytes EXCEPT ![s] = @ + Counted(s, d)]
              /\ UNCHANGED receivedBytes
         ELSE /\ receivedBytes' = [receivedBytes EXCEPT ![s] = @ + Counted(s, d)]
              /\ UNCHANGED sentBytes
    /\ pcPipe' = [pcPipe EXCEPT ![s][d] = "read"]
    /\ UNCHANGED << mainVars, id, tlsUnwrap, erred, connClosed, pcStart, buff, n,
                    errArg, pcStats, prevSent, prevReceived, envVars, obsVars >>

\* ------------------------------------------------------------------- err
\* err, lines 129-134: return when p.erred is set; else log the error unless
\* it is io.EOF, and go on to the send.
PipeErrCheck(s, d) ==
    /\ pcPipe[s][d] = "err"
    /\ IF erred[s]
         THEN /\ pcPipe' = [pcPipe EXCEPT ![s][d] = "exited"]
              /\ log' = log
         ELSE /\ pcPipe' = [pcPipe EXCEPT ![s][d] = "send"]
              /\ IF errArg[s][d].eof
                   THEN log' = log
                   ELSE Logged(s, [kind |-> "error", ctx |-> errArg[s][d].ctx, dir |-> d])
    /\ UNCHANGED << mainVars, proxyVars, pcStart, buff, n, errArg, pcStats,
                    prevSent, prevReceived, envVars, dials, firstFailure, consumed, signalled >>

\* Start receiving from stopSignal again (a loop around line 103).
AfterStopSignalAgain == "wait"

\* Where Start goes once its receive `<-p.stopSignal` has completed.
AfterStopSignal == "stopStats"

\* p.stopSignal <- true in err (line 135) meeting <-p.stopSignal in Start
\* (line 103): stopSignal is unbuffered, the two complete together.
StopSignal(s, d) ==
    /\ pcPipe[s][d] = "send"
    /\ pcStart[s] = "wait"
    /\ pcPipe' = [pcPipe EXCEPT ![s][d] = "setErred"]
    /\ pcStart' = [pcStart EXCEPT ![s] = AfterStopSignal]
    /\ consumed' = [consumed EXCEPT ![s] = @ + 1]
    /\ signalled' = [signalled EXCEPT ![s] = @ \cup {d}]
    /\ UNCHANGED << mainVars, proxyVars, buff, n, errArg, pcStats, prevSent,
                    prevReceived, envVars, log, dials, firstFailure >>

\* erred as one flag of the package, shared by every Proxy.
PipeSetErredShared(s, d) ==
    /\ pcPipe[s][d] = "setErred"
    /\ erred' = [t \in Sessions |-> TRUE]
    /\ pcPipe' = [pcPipe EXCEPT ![s][d] = "exited"]
    /\ UNCHANGED << mainVars, id, tlsUnwrap, sentBytes, receivedBytes, connClosed,
                    pcStart, buff, n, errArg, pcStats, prevSent, prevReceived,
                    envVars, obsVars >>

\* p.erred = true (line 136); err and then the pipe return.
PipeSetErred(s, d) ==
    /\ pcPipe[s][d] = "setErred"
    /\ erred' = [erred EXCEPT ![s] = TRUE]
    /\ pcPipe' = [pcPipe EXCEPT ![s][d] = "exited"]
    /\ UNCHANGED << mainVars, id, tlsUnwrap, sentBytes, receivedBytes, connClosed,
                    pcStart, buff, n, errArg, pcStats, prevSent, prevReceived,
                    envVars, obsVars >>

\* ----------------------------------------------------------------- stats
\* Line 119 without its second comparison.
ChangedSentOnly(s) == prevSent[s] # sentBytes[s]

\* The condition of line 119.
Changed(s) == prevSent[s] # sentBytes[s] \/ prevReceived[s] # receivedBytes[s]

\* case <-ticker.C: the ticker has fired while stats waits in its select.
StatsTick(s) ==
    /\ pcStats[s] = "select"
    /\ pcStats' = [pcStats EXCEPT ![s] = "tick"]
    /\ UNCHANGED << mainVars, proxyVars, pcStart, pcPipe, buff, n, errArg,
                    prevSent, prevReceived, envVars, obsVars >>

\* The test of line 119: on with the log line, or back to the select.
StatsCompare(s) ==
    /\ pcStats[s] = "tick"
    /\ pcStats' = [pcStats EXCEPT ![s] = IF Changed(s) THEN "log" ELSE "select"]
    /\ UNCHANGED << mainVars, proxyVars, pcStart, pcPipe, buff, n, errArg,
                    prevSent, prevReceived, envVars, obsVars >>

\* log.Printf("[%d] %d bytes sent, %d bytes recieved", ...), line 121.
StatsLog(s) ==
    /\ pcStats[s] = "log"
    /\ Logged(s, [kind |-> "traffic", sent |-> sentBytes[s], received |-> receivedBytes[s]])
    /\ pcStats' = [pcStats EXCEPT ![s] = "assign"]
    /\ UNCHANGED << mainVars, proxyVars, pcStart, pcPipe, buff, n, errArg,
                    prevSent, prevReceived, envVars, dials, firstFailure, consumed, signalled >>

\* prevSent, prevReceived = p.sentBytes, p.receivedBytes, line 122.
StatsAssign(s) ==
    /\ pcStats[s] = "assign"
    /\ prevSent' = [prevSent EXCEPT ![s] = sentBytes[s]]
    /\ prevReceived' = [prevReceived EXCEPT ![s] = receivedBytes[s]]
    /\ pcStats' = [pcStats EXCEPT ![s] = "select"]
    /\ UNCHANGED << mainVars, proxyVars, pcStart, pcPipe, buff, n, errArg,
                    envVars, obsVars >>

\* stats without the return of line 117.
AfterDoneNoReturn == "select"

\* Where stats goes on `case <-done`: ticker.Stop() and return.
AfterDone == "exited"

\* done <- true in Start (line 104) meeting `case <-done` in stats (line 115):
\* done is unbuffered, the two complete together.
StatsDone(s) ==
    /\ pcStart[s] = "stopStats"
    /\ pcStats[s] = "select"
    /\ pcStats' = [pcStats EXCEPT ![s] = AfterDone]
    /\ pcStart' = [pcStart EXCEPT ![s] = "logClosed"]
    /\ UNCHANGED << mainVars, proxyVars, pcPipe, buff, n, errArg,
                    prevSent, prevReceived, envVars, obsVars >>

\* ----------------------------------------------------------- environment
\* The direction whose source is side x.
DirFrom(x) == IF x = "local" THEN "up" ELSE "down"

\* The peer on side x sends one more byte.
PeerWrite(s, x) ==
    /\ peer[s][x] = "open"
    /\ ~connClosed[s][x]
    /\ peerSent' = [peerSent EXCEPT ![s][DirFrom(x)] = @ + 1]
    /\ UNCHANGED << mainVars, proxyVars, taskVars, peer, nRead, written, obsVars >>

\* The peer on side x closes its end gracefully (how = "fin": reads of what it
\* sent end in io.EOF) or the connection breaks (how = "rst").
PeerEnd(s, x, how) ==
    /\ peer[s][x] = "open"
    /\ ~connClosed[s][x]
    /\ peer' = [peer EXCEPT ![s][x] = how]
    /\ UNCHANGED << mainVars, proxyVars, taskVars, peerSent, nRead, written, obsVars >>

\* ------------------------------------------------------------------ Next
\* Bytes the two peers of session s have sent.
BytesSent(s) == peerSent[s]["up"] + peerSent[s]["down"]

RECURSIVE BytesSentUpTo(_)
\* Bytes the peers of sessions 1..k have sent.
BytesSentUpTo(k) == IF k = 0 THEN 0 ELSE BytesSentUpTo(k - 1) + BytesSent(k)

\* The steps of Start but its closes and its two channel operations.
StartStep(s) ==
    \/ StartDialOk(s)
    \/ StartDialFail(s)
    \/ StartGoPipeUp(s)
    \/ StartGoPipeDown(s)
    \/ StartGoStats(s)
    \/ StartLogClosed(s)

PipeStep(s, d) ==
    \/ PipeReadData(s, d)
    \/ PipeReadEOF(s, d)
    \/ PipeReadError(s, d)
    \/ PipeWriteOk(s, d)
    \/ PipeWriteError(s, d)
    \/ PipeCount(s, d)
    \/ PipeErrCheck(s, d)
    \/ StopSignal(s, d)
    \/ PipeSetErred(s, d)

\* The ticker fires (and what stats does then).
StatsStep(s) ==
    \/ StatsTick(s)
    \/ StatsCompare(s)
    \/ StatsLog(s)
    \/ StatsAssign(s)

\* A step of session s or of its peers, with every failure of its
\* environment: peers that close or break the connection at any moment,
\* closes that fail, the ticker firing at any moment; the peers send MaxBytes
\* bytes between them.
SessionNext(s) ==
    \/ StartStep(s)
    \/ \E failed \in BOOLEAN : StartCloseRemote(s, failed)
    \/ \E failed \in BOOLEAN : StartCloseLocal(s, failed)
    \/ \E d \in Dirs : PipeStep(s, d)
    \/ StatsStep(s)
    \/ StatsDone(s)
    \/ \E x \in Sides :
        \/ BytesSent(s) < MaxBytes /\ PeerWrite(s, x)
        \/ PeerEnd(s, x, "fin")
        \/ PeerEnd(s, x, "rst")

\* One session in either mode.
Next ==
    \/ Accept(1)
    \/ \E s \in Sessions : SessionNext(s)

Spec == Init /\ [][Next]_vars

\* The -tls flag is not given.
InitPlain == Init /\ unwrapTLS = FALSE

\* One plain-mode session that lives less than a ticker period, with peers
\* that send up to MaxPayload bytes in each direction and then may close.

NextRelay ==
    \/ Accept(1)
    \/ \E s \in Sessions :
        \/ StartStep(s)
        \/ StartCloseRemote(s, FALSE)
        \/ StartCloseLocal(s, FALSE)
        \/ \E d \in Dirs : PipeStep(s, d)
        \/ StatsDone(s)
        \/ \E x \in Sides :
            \/ peerSent[s][DirFrom(x)] < MaxPayload /\ PeerWrite(s, x)
            \/ PeerEnd(s, x, "fin")

SpecRelay == InitPlain /\ [][NextRelay]_vars

\* Every step of the Start goroutine.
StartRun(s) ==
    \/ StartStep(s)
    \/ \E failed \in BOOLEAN : StartCloseRemote(s, failed)
    \/ \E failed \in BOOLEAN : StartCloseLocal(s, failed)

\* The scheduler runs every goroutine that can take a step; and stats, which
\* comes back to its select after every tick with the next tick a ticker
\* period away, takes a stop request that is waiting there.
Fairness(S) ==
    \A s \in S :
        /\ WF_vars(StartRun(s))
        /\ \A d \in Dirs : WF_vars(PipeStep(s, d))
        /\ WF_vars(StatsCompare(s) \/ StatsLog(s) \/ StatsAssign(s))
        /\ SF_vars(StatsDone(s))

\* The plain-mode behaviours of Spec under that scheduling.
FairSpec == InitPlain /\ [][Next]_vars /\ Fairness({1})

\* Several sessions at once, against a remote that stays up: only the local
\* clients close.  Accept errors happen between the accepts.
NextMulti ==
    \/ Accept(MaxSessions)
    \/ AcceptError
    \/ \E s \in Sessions :
        \/ StartStep(s)
        \/ StartCloseRemote(s, FALSE)
        \/ StartCloseLocal(s, FALSE)
        \/ \E d \in Dirs : PipeStep(s, d)
        \/ StatsStep(s)
        \/ StatsDone(s)
        \/ \E x \in Sides :
            \/ BytesSentUpTo(MaxSessions) < MaxBytesMulti /\ PeerWrite(s, x)
            \/ x = "local" /\ PeerEnd(s, x, "fin")

SpecMulti == Init /\ [][NextMulti]_vars

\* One plain-mode session whose peers send MaxReported bytes between them
\* while the ticker fires at any moment; the local client may close.
NextReport ==
    \/ Accept(1)
    \/ \E s \in Sessions :
        \/ StartStep(s)
        \/ StartCloseRemote(s, FALSE)
        \/ StartCloseLocal(s, FALSE)
        \/ \E d \in Dirs : PipeStep(s, d)
        \/ StatsStep(s)
        \/ StatsDone(s)
        \/ \E x \in Sides :
            \/ BytesSent(s) < MaxReported /\ PeerWrite(s, x)
            \/ x = "local" /\ PeerEnd(s, x, "fin")

SpecReport == InitPlain /\ [][NextReport]_vars

\* What session s has done and where it stands, but for its id, its mode and
\* the target it dialed.
Behaviour(s) ==
    << sentBytes[s], receivedBytes[s], erred[s], connClosed[s],
       pcStart[s], pcPipe[s], buff[s], n[s], errArg[s], pcStats[s], prevSent[s],
       prevReceived[s], peer[s], peerSent[s], nRead[s], written[s],
       log[s], firstFailure[s], consumed[s], signalled[s] >>

\* Sessions 1 and 2 have behaved alike.
Synced == Behaviour(1) = Behaviour(2)

\* The turn of main's loop that accepts the second connection, as a process
\* started with the other setting of -tls takes it (lines 38-45).
AcceptOther ==
    /\ connId = 1
    /\ connId' = connId + 1
    /\ New(connId + 1, ~unwrapTLS)
    /\ pcStart' = [pcStart EXCEPT ![connId + 1] = "dial"]
    /\ peer' = [peer EXCEPT ![connId + 1]["local"] = "open"]
    /\ UNCHANGED << unwrapTLS, acceptErrs, pcPipe, buff, n, errArg, pcStats,
                    prevSent, prevReceived, peerSent, nRead, written, obsVars >>

\* Session 2, of the other mode, takes the step that session 1 has taken.
Follow == (AcceptOther \/ SessionNext(2)) /\ Synced'

\* Two sessions side by side, one of each mode, with the same peer events and
\* the same scheduling: session 1 takes any step of Next, session 2 follows.
NextModes ==
    \/ Synced /\ (Accept(1) \/ SessionNext(1))
    \/ ~Synced /\ Follow

SpecModes == Init /\ [][NextModes]_vars

\* ================================================================ claims
\* Pipe d of session s has got past the test of p.erred in err: it has logged
\* its error (unless io.EOF) and sends, or has sent, on stopSignal.
PassedErredCheck(s, d) == pcPipe[s][d] \in {"send", "setErred"} \/ d \in signalled[s]

\* The error lines ("read failed", "write failed") in the log of session s.
ErrorLines(s) == SelectSeq(log[s], LAMBDA l : l.kind = "error")

\* C1: once one pipe has reported the first failure, the other pipe's call of
\* err is a no-op: at most one pipe of a session ever logs an error line, and
\* at most one ever attempts the send on stopSignal.
C1_SecondFailureIsNoOp ==
    \A s \in Sessions :
        /\ Cardinality({d \in Dirs : PassedErredCheck(s, d)}) <= 1
        /\ Len(ErrorLines(s)) <= 1

\* C2: Start consumes at most one termination signal, at most one pipe's send
\* on stopSignal completes, and once a pipe has called err exactly one
\* termination signal is consumed.
C2_OneTermination ==
    /\ [](\A s \in Sessions : consumed[s] <= 1 /\ Cardinality(signalled[s]) <= 1)
    /\ \A s \in Sessions :
         (\E d \in Dirs : pcPipe[s][d] = "err") ~> (consumed[s] = 1)

\* Both pipes have failed, one signal was consumed.
C2_Witness ==
    \E s \in Sessions :
        /\ consumed[s] = 1
        /\ \A d \in Dirs : pcPipe[s][d] \in {"send", "setErred", "exited"}
        /\ \E d \in Dirs : pcPipe[s][d] = "send"

\* The counter of direction d: sentBytes for "up", receivedBytes for "down".
Counter(s, d) == IF d = "up" THEN sentBytes[s] ELSE receivedBytes[s]

\* C3: in every direction the bytes written to the destination are a prefix
\* of the bytes the source peer sent: nothing duplicated, reordered, altered
\* or skipped, whatever the chunking of the reads.
C3_WrittenIsPrefixOfSent ==
    \A s \in Sessions : \A d \in Dirs :
        IsPrefix(written[s][d], Stream(d, 0, peerSent[s][d]))

\* A payload larger than the buffer has been relayed whole after a short
\* read, while the other direction carried bytes too.
C3_Witness ==
    \E s \in Sessions :
        /\ MaxPayload > BufSize
        /\ written[s]["up"] = Stream("up", 0, MaxPayload)
        /\ pcPipe[s]["up"] = "count" /\ n[s]["up"] < BufSize
        /\ Len(written[s]["down"]) > 0

\* The session has closed: Start has returned after a dial that succeeded.
Closed(s) == pcStart[s] = "exited" /\ connClosed[s]["remote"]

HasLine(s, kind) == \E i \in 1..Len(log[s]) : log[s][i].kind = kind

\* The dial of session s has failed.
DialFailed(s) == HasLine(s, "dialfail")

\* C5: when the dial fails it was the only one, the session logs one failure
\* line and neither an open, a traffic, an error nor a closing line (a failing
\* close of the local connection has its own line), no pipe and no reporter
\* is ever started, the counters stay 0, and all Start still does is close the
\* local connection.
C5_DialFailure ==
    \A s \in Sessions :
        DialFailed(s) =>
            /\ Len(dials[s]) = 1
            /\ \A d \in Dirs : pcPipe[s][d] = "none"
            /\ pcStats[s] = "none"
            /\ Len(SelectSeq(log[s], LAMBDA l : l.kind = "dialfail")) = 1
            /\ \A i \in 1..Len(log[s]) : log[s][i].kind \in {"dialfail", "closeerr"}
            /\ sentBytes[s] = 0 /\ receivedBytes[s] = 0
            /\ pcStart[s] \in {"closeLocal", "exited"}
            /\ pcStart[s] = "exited" => connClosed[s]["local"]
            /\ ~connClosed[s]["remote"]

\* A TLS dial has failed and Start has returned; the client had sent a byte.
C5_Witness ==
    \E s \in Sessions :
        /\ DialFailed(s) /\ dials[s] = << "tls" >>
        /\ pcStart[s] = "exited"
        /\ peerSent[s]["up"] > 0

\* Start has consumed the signal, stopped the reporter, logged the closing
\* summary, closed both connections and returned.
TornDown(s) ==
    /\ consumed[s] = 1
    /\ pcStats[s] = "exited"
    /\ HasLine(s, "closed")
    /\ connClosed[s]["remote"] /\ connClosed[s]["local"]
    /\ pcStart[s] = "exited"

\* C6: when a pipe is at its send on stopSignal, before Start has reached its
\* receive or after, the session is eventually torn down.
C6_FailureLeadsToTeardown ==
    \A s \in Sessions :
        (\E d \in Dirs : pcPipe[s][d] = "send") ~> TornDown(s)

\* A pipe is at its send while Start has not started the reporter yet.
C6_Witness ==
    \E s \in Sessions : \E d \in Dirs :
        /\ pcPipe[s][d] = "send"
        /\ pcStart[s] = "goStats"
        /\ consumed[s] = 0

\* The traffic lines in the log of session s.
TrafficLines(s) == SelectSeq(log[s], LAMBDA l : l.kind = "traffic")

\* C7: a tick that finds both counters equal to the previous observation
\* logs nothing and returns to the select; a tick that finds a counter changed
\* logs exactly one traffic line, with both current totals; nothing else
\* adds a traffic line.
C7_TickReports ==
    [][\A s \in Sessions :
        /\ (pcStats[s] = "tick" /\ pcStats'[s] # "tick") =>
              /\ log'[s] = log[s]
              /\ pcStats'[s] = IF prevSent[s] = sentBytes[s] /\ prevReceived[s] = receivedBytes[s]
                                 THEN "select" ELSE "log"
        /\ (pcStats[s] = "log" /\ pcStats'[s] # "log") =>
              /\ pcStats'[s] = "assign"
              /\ log'[s] = Append(log[s], [kind |-> "traffic", sent |-> sentBytes[s],
                                           received |-> receivedBytes[s]])
        /\ (pcStats[s] = "assign" /\ pcStats'[s] # "assign") =>
              /\ pcStats'[s] = "select"
              /\ log'[s] = log[s]
        /\ TrafficLines(s)' # TrafficLines(s) => pcStats[s] = "log"
      ]_vars

\* A tick that finds nothing changed, after a tick that reported received bytes.
C7_Witness ==
    \E s \in Sessions :
        /\ pcStats[s] = "tick"
        /\ Len(TrafficLines(s)) = 1
        /\ receivedBytes[s] > 0
        /\ prevSent[s] = sentBytes[s] /\ prevReceived[s] = receivedBytes[s]

\* No traffic line follows the closing summary in the log of session s.
NoTrafficAfterClosed(s) ==
    \A i, j \in 1..Len(log[s]) :
        (i < j /\ log[s][i].kind = "closed") => log[s][j].kind # "traffic"

\* C8: the reporter has taken the stop request before the closing summary is
\* logged, it logs nothing once stopped, no traffic line follows the closing
\* summary, and Start's stop request is always eventually taken.
C8_ReporterStops ==
    /\ [](\A s \in Sessions :
            /\ HasLine(s, "closed") => pcStats[s] = "exited"
            /\ NoTrafficAfterClosed(s))
    /\ [][\A s \in Sessions :
            pcStats[s] = "exited" =>
                pcStats'[s] = "exited" /\ TrafficLines(s)' = TrafficLines(s)]_vars
    /\ \A s \in Sessions :
         (pcStart[s] = "stopStats") ~> (pcStats[s] = "exited" /\ pcStart[s] # "stopStats")

\* The closing summary follows a traffic line; the reporter has stopped.
C8_Witness ==
    \E s \in Sessions :
        /\ HasLine(s, "closed")
        /\ Len(TrafficLines(s)) > 0
        /\ pcStats[s] = "exited"

\* C9: a step changes the state of at most one session, and what a session's
\* pipe can do depends on that session alone: whatever the other sessions
\* have done, a pipe with bytes to read on an open connection can read them,
\* a pipe with a chunk for an open destination can write it, and a pipe that
\* has written can count.
C9_SessionsIsolated ==
    /\ [][\A s, t \in Sessions :
            (s # t /\ SessionState(s)' # SessionState(s)) =>
                SessionState(t)' = SessionState(t)]_vars
    /\ [](\A s \in Sessions : \A d \in Dirs :
            /\ (pcPipe[s][d] = "read" /\ Unread(s, d) > 0 /\ ~connClosed[s][Src(d)])
                  => ENABLED PipeReadData(s, d)
            /\ (pcPipe[s][d] = "write" /\ peer[s][Dst(d)] = "open" /\ ~connClosed[s][Dst(d)])
                  => ENABLED PipeWriteOk(s, d)
            /\ pcPipe[s][d] = "count" => ENABLED PipeCount(s, d))

\* One session has been torn down; another, untouched by that, has relayed a
\* byte and goes on.
C9_Witness ==
    \E s, t \in Sessions :
        /\ s # t
        /\ TornDown(s)
        /\ pcStart[t] = "wait" /\ ~erred[t] /\ consumed[t] = 0
        /\ sentBytes[t] + receivedBytes[t] > 0
        /\ \A x \in Sides : ~connClosed[t][x]

\* C10: a session whose first failure is io.EOF logs no error line at all; a
\* session whose first failure is another error logs exactly one error line,
\* that failure's, before the termination signal is delivered.
C10_ErrorLineOnlyIfNotEOF ==
    \A s \in Sessions :
        firstFailure[s] # "none" =>
            LET f == firstFailure[s] IN
            IF errArg[s][f].eof
              THEN ErrorLines(s) = << >>
              ELSE /\ Len(ErrorLines(s)) <= 1
                   /\ PassedErredCheck(s, f) =>
                        ErrorLines(s) = << [kind |-> "error", ctx |-> errArg[s][f].ctx, dir |-> f] >>

\* A pipe of session s is blocked for good: it is at its send on stopSignal
\* and Start has already made its one receive.
BlockedForever(s, d) == pcPipe[s][d] = "send" /\ consumed[s] = 1

\* C11: an accept error is logged and changes nothing else: no session is
\* created, connId stays; and the acceptor is back at AcceptTCP after every
\* turn of its loop: whatever the sessions do, one of their pipes blocked for
\* good included, the next connection can be accepted and the next accept
\* error logged.
C11_AcceptLoopLive ==
    /\ [][acceptErrs' # acceptErrs =>
            /\ acceptErrs' = acceptErrs + 1
            /\ connId' = connId
            /\ \A s \in Sessions : SessionState(s)' = SessionState(s)]_vars
    /\ [](/\ connId < MaxSessions => ENABLED Accept(MaxSessions)
          /\ acceptErrs < MaxAcceptErrs => ENABLED AcceptError)

\* An accept error has been logged, a pipe of the one session so far is
\* blocked for good and its Start has not returned: the acceptor is at
\* AcceptTCP, with a connection still to come.
C11_Witness ==
    /\ acceptErrs > 0
    /\ connId < MaxSessions
    /\ \E s \in Sessions : \E d \in Dirs : BlockedForever(s, d) /\ pcStart[s] # "exited"

AllExited(s) ==
    /\ pcStart[s] = "exited"
    /\ pcStats[s] = "exited"
    /\ \A d \in Dirs : pcPipe[s][d] = "exited"

\* C13: once Start has consumed the termination signal, every task of the
\* session eventually exits: Start, the reporter and both pipes.
C13_AllTasksExit ==
    \A s \in Sessions : (consumed[s] = 1) ~> AllExited(s)

\* C14: the totals printed in the closing summary of a session are final:
\* in every state after the summary was logged, sentBytes and receivedBytes
\* are the values it printed.
C14_ClosingSummaryFinal ==
    \A s \in Sessions : \A i \in 1..Len(log[s]) :
        log[s][i].kind = "closed" =>
            /\ log[s][i].sent = sentBytes[s]
            /\ log[s][i].received = receivedBytes[s]

\* C15: whenever Start has consumed the termination signal, the erred flag
\* of the session is already true.
C15_ErredBeforeSignal ==
    \A s \in Sessions : consumed[s] > 0 => erred[s]

\* The last line of a non-empty sequence of lines.
Last(lines) == lines[Len(lines)]

\* C16: once the reporter has emitted a traffic line and stored its
\* snapshot, the snapshot is the totals that line printed.
C16_SnapshotIsPrinted ==
    \A s \in Sessions :
        (pcStats[s] \in {"select", "tick", "exited"} /\ TrafficLines(s) # << >>) =>
            /\ prevSent[s] = Last(TrafficLines(s)).sent
            /\ prevReceived[s] = Last(TrafficLines(s)).received

\* Pipe d of session s has called err: its loop has ended.
PipeEnded(s, d) == pcPipe[s][d] \in {"err", "send", "setErred", "exited"}

\* C17: a counter never decreases and is changed only by the counting step
\* of its own pipe (sentBytes by the local-to-remote pipe, receivedBytes by
\* the remote-to-local pipe), a step of no other goroutine, which adds the
\* number of bytes of the write that just returned without error; so a
\* counter is the number of bytes written by the writes that succeeded, a
\* chunk whose write failed adds nothing, and Start, the reporter and err
\* leave both counters as they are.
C17_CountersFrame ==
    /\ [][\A s \in Sessions : \A d \in Dirs :
            /\ Counter(s, d)' >= Counter(s, d)
            /\ Counter(s, d)' # Counter(s, d) =>
                  /\ pcPipe[s][d] = "count" /\ pcPipe'[s][d] = "read"
                  /\ Counter(s, d)' = Counter(s, d) + n[s][d]
                  /\ pcStart'[s] = pcStart[s] /\ pcStats'[s] = pcStats[s]
                  /\ \A e \in Dirs \ {d} :
                        pcPipe'[s][e] = pcPipe[s][e] /\ Counter(s, e)' = Counter(s, e)
            /\ pcPipe[s][d] = "write" /\ pcPipe'[s][d] = "err" =>
                  Counter(s, d)' = Counter(s, d)
            /\ PipeEnded(s, d) => Counter(s, d)' = Counter(s, d)]_vars
    /\ [](\A s \in Sessions : \A d \in Dirs :
            /\ pcPipe[s][d] \in {"read", "write"} => Counter(s, d) = Len(written[s][d])
            /\ pcPipe[s][d] = "count" => Counter(s, d) + n[s][d] = Len(written[s][d])
            /\ PipeEnded(s, d) /\ errArg[s][d].ctx = "read" =>
                  Counter(s, d) = Len(written[s][d])
            /\ PipeEnded(s, d) /\ errArg[s][d].ctx = "write" =>
                  Counter(s, d) + n[s][d] = Len(written[s][d]))

\* A chunk of two bytes was read and its write failed after one byte: the
\* byte is on the wire and the counter has not moved; the reporter is in the
\* middle of a tick.
C17_Witness ==
    \E s \in Sessions : \E d \in Dirs :
        /\ PipeEnded(s, d) /\ errArg[s][d].ctx = "write"
        /\ nRead[s][d] = 2 /\ Len(written[s][d]) = 1
        /\ Counter(s, d) = 0
        /\ pcStats[s] = "tick"

\* Both peers of session s are connected and neither has closed or failed.
PeersUp(s) == peer[s]["local"] = "open" /\ peer[s]["remote"] = "open"

\* Session s is piping: the dial succeeded and Start has not yet received
\* from stopSignal.
Piping(s) == pcStart[s] \in {"goPipeUp", "goPipeDown", "goStats", "wait"}

\* C18: the session closes its local connection only after the dial failed
\* or Start consumed the termination signal, and its remote connection only
\* after Start consumed the signal; a pipe is in err, and so the signal is
\* sent, only after its Read or Write returned an error; and as long as
\* neither peer has closed or failed the session is piping: no pipe has
\* failed, no signal was sent, no connection is closed.
C18_NoCloseOfItsOwn ==
    \A s \in Sessions :
        /\ (connClosed[s]["local"] \/ pcStart[s] = "closeLocal") =>
              DialFailed(s) \/ consumed[s] = 1
        /\ (connClosed[s]["remote"] \/ pcStart[s] = "closeRemote") => consumed[s] = 1
        /\ \A d \in Dirs :
              (PipeEnded(s, d) \/ d \in signalled[s]) =>
                  /\ errArg[s][d].ctx \in {"read", "write"}
                  /\ \E x \in Sides : connClosed[s][x] \/ peer[s][x] \in {"fin", "rst"}
        /\ consumed[s] > 0 => firstFailure[s] # "none"
        /\ PeersUp(s) =>
              /\ Piping(s)
              /\ firstFailure[s] = "none" /\ consumed[s] = 0
              /\ \A d \in Dirs : ~PipeEnded(s, d)
              /\ \A x \in Sides : ~connClosed[s][x]

\* An idle session: the peers have sent all they have to send and it was
\* relayed and counted, both pipes wait in Read, a ticker period has passed
\* and the reporter has reported; the session is still piping.
C18_Witness ==
    \E s \in Sessions :
        /\ PeersUp(s)
        /\ pcStart[s] = "wait"
        /\ \A d \in Dirs : pcPipe[s][d] = "read" /\ Unread(s, d) = 0
        /\ sentBytes[s] + receivedBytes[s] = MaxBytes
        /\ TrafficLines(s) # << >> /\ pcStats[s] = "tick"

\* Session s has been created.
Created(s) == pcStart[s] # "none"

\* C19: the sessions created so far have the ids 1 .. connId, one each (so
\* no two share an id); a session is created only by the acceptor's turn
\* that has just incremented connId, one session per turn, with the new
\* value of connId as its id, greater than the id of every session created
\* before; the id of a created session never changes; and no step that
\* changes something of an existing session (a step of its Start, its pipes,
\* its reporter or its peers) changes connId.
C19_SessionIds ==
    /\ [](/\ Cardinality({s \in Sessions : Created(s)}) = connId
          /\ \A s \in Sessions : Created(s) => id[s] \in 1..connId
          /\ \A s, t \in Sessions :
                (Created(s) /\ Created(t) /\ s # t) => id[s] # id[t])
    /\ [][/\ connId' # connId <=> \E s \in Sessions : ~Created(s) /\ Created(s)'
          /\ connId' # connId =>
                /\ connId' = connId + 1
                /\ \A s \in Sessions :
                      (~Created(s) /\ Created(s)') =>
                          /\ id'[s] = connId'
                          /\ \A t \in Sessions : Created(t) => id[t] < id'[s]
                          /\ \A t \in Sessions \ {s} : ~Created(t) => ~Created(t)'
          /\ \A s \in Sessions :
                Created(s) =>
                    /\ id'[s] = id[s] /\ Created(s)'
                    /\ SessionState(s)' # SessionState(s) => connId' = connId]_vars

\* An accept error has been logged, every session has been created, the
\* last one is piping and an earlier one, with a smaller id, is torn down.
C19_Witness ==
    /\ connId = MaxSessions
    /\ acceptErrs > 0
    /\ pcStart[MaxSessions] = "wait"
    /\ \E s \in Sessions : TornDown(s) /\ id[s] < id[MaxSessions]

====
